---- MODULE Spec2Model ----
(***************************************************************************)
(* Model of the hypermode manifest reader (package manifest):              *)
(*   ReadManifest / parseManifestJson / parseManifestJsonV1,               *)
(*   ValidateManifest, extractVariables (templateRegex) and                *)
(*   HostInfo.GetVariables, as found in src/manifest.go lines 122-412.     *)
(*                                                                         *)
(* Go strings are TLA+ strings; a Go map is a function whose DOMAIN is the *)
(* key set; a Go slice is a record [isNil, elems].  Go leaves the          *)
(* iteration order of a map unspecified: an operation that ranges over a   *)
(* map takes the order as a nondeterministic choice.                       *)
(***************************************************************************)
EXTENDS Integers, Sequences, FiniteSets, TLC

VARIABLES
    pc,        \* position of the running operation ("idle", a step, "done")
    op,        \* the operation that is running or has just finished
    content,   \* the bytes handed to ReadManifest / ValidateManifest
    data,      \* the bytes standardizeJSON returned
    manifest,  \* ReadManifest's manifest variable (the value it returns)
    err,       \* the error value of the running operation
    outcome,   \* "none", "returned" or "panicked"
    calls,     \* the calls the operation has made so far, in order
    schemaOK,  \* whether the bundled schema text compiles
    conforms,  \* whether the schema accepts the document's value
    str,       \* extractVariables' argument
    segs,      \* the pieces str was written from
    extracted, \* extractVariables' result
    host,      \* GetVariables' receiver
    order,     \* the order in which the two map ranges visit the keys
    hostVars,  \* GetVariables' result
    args,      \* the receiver(s) of GetHostVariables and of Hash
    ret,       \* the value GetHostVariables or Hash returned
    procs,     \* the calls running side by side, each with its own locals
    shared     \* the package-level variables schemaContent and templateRegex

vars == <<pc, op, content, data, manifest, err, outcome, calls,
          schemaOK, conforms, str, segs, extracted, host, order, hostVars,
          args, ret, procs, shared>>

-----------------------------------------------------------------------------
(* Bounds of the model.                                                    *)

\* longest string of the exhaustive string inputs
MaxStrLen == 4
\* most pieces (text, placeholder) a composed string is written from
MaxSegs == 2
\* most entries of a legacy hosts array
MaxHosts == 2
\* most entries of a legacy models array
MaxModels == 1

-----------------------------------------------------------------------------
(* Strings.                                                                *)

At(s, i) == SubSeq(s, i, i)

HasAt(s, i, lit) ==
    /\ i >= 1
    /\ i + Len(lit) - 1 <= Len(s)
    /\ SubSeq(s, i, i + Len(lit) - 1) = lit

Min(S) == CHOOSE x \in S : \A y \in S : x <= y
Max(S) == CHOOSE x \in S : \A y \in S : x >= y

\* The characters \s matches (RE2: [\t\n\f\r ]).
IsSpace(c) == c \in {" ", "\t", "\n", "\f", "\r"}

\* The characters . matches (every character but newline).
IsDot(c) == c # "\n"

RECURSIVE SpaceRun(_, _)
SpaceRun(s, i) ==
    IF i <= Len(s) /\ IsSpace(At(s, i)) THEN 1 + SpaceRun(s, i + 1) ELSE 0

RECURSIVE DotRun(_, _)
DotRun(s, i) ==
    IF i <= Len(s) /\ IsDot(At(s, i)) THEN 1 + DotRun(s, i + 1) ELSE 0

-----------------------------------------------------------------------------
(* templateRegex:  {{\s*(?:base64\((.+?):(.+?)\)|(.+?))\s*}}               *)
(* Go's regexp gives the leftmost match and, among the matches that start  *)
(* there, the one a backtracking search finds first: \s* takes as much as  *)
(* it can, the base64 alternative is tried before the plain one, and .+?   *)
(* takes as little as it can.                                              *)

NoMatch == [ok |-> FALSE, end |-> 0, g |-> <<"", "", "">>]

\* the literal that opens the first alternative
Base64Open == "base64("

\* \s*}} at position i: the position after the match, or 0
CloserAfter(s, i, k) == IF HasAt(s, i + k, "}}") THEN i + k + 2 ELSE 0

Closer(s, i) == CloserAfter(s, i, SpaceRun(s, i))

\* the ends e of a group that starts at p, runs over characters . matches
\* and is followed by \s*}}
EndsBeforeCloser(s, p) == {e \in (p + 1) .. (p + DotRun(s, p)) : Closer(s, e) # 0}

\* the third group's alternative with its group ending before e
PlainMatch(s, p, e) ==
    [ok |-> TRUE, end |-> Closer(s, e), g |-> <<"", "", SubSeq(s, p, e - 1)>>]

\* .+ in place of .+?: the longest of the possible groups
LongestOf(s, p, ends) == IF ends = {} THEN NoMatch ELSE PlainMatch(s, p, Max(ends))

\* .+? takes the shortest of the possible groups
ShortestOf(s, p, ends) == IF ends = {} THEN NoMatch ELSE PlainMatch(s, p, Min(ends))

\* the third group's alternative: (.+?) and then \s*}}
PlainAlt(s, p) == ShortestOf(s, p, EndsBeforeCloser(s, p))

\* the ends of the second group after a first group that ends before e1:
\* (.+?)\) and then \s*}}
SecondEnds(s, e1) ==
    {e2 \in (e1 + 2) .. (e1 + 1 + DotRun(s, e1 + 1)) :
        HasAt(s, e2, ")") /\ Closer(s, e2 + 1) # 0}

\* the ends of the first group, which starts at q: (.+?): and a second
\* group that can be completed
FirstEnds(s, q) ==
    {e1 \in (q + 1) .. (q + DotRun(s, q)) : HasAt(s, e1, ":") /\ SecondEnds(s, e1) # {}}

Base64Match(s, q, e1, e2) ==
    [ok |-> TRUE, end |-> Closer(s, e2 + 1),
     g |-> <<SubSeq(s, q, e1 - 1), SubSeq(s, e1 + 1, e2 - 1), "">>]

Base64Second(s, q, e1) == Base64Match(s, q, e1, Min(SecondEnds(s, e1)))

Base64First(s, q, firsts) ==
    IF firsts = {} THEN NoMatch ELSE Base64Second(s, q, Min(firsts))

\* the first alternative: base64\((.+?):(.+?)\) and then \s*}}
Base64Alt(s, p) ==
    IF ~HasAt(s, p, Base64Open) THEN NoMatch
    ELSE Base64First(s, p + Len(Base64Open), FirstEnds(s, p + Len(Base64Open)))

\* the alternation prefers its first alternative
FirstOr(b, s, p) == IF b.ok THEN b ELSE PlainAlt(s, p)

\* (?:base64\(...\)|(.+?))\s*}} at position p
AltAt(s, p) == FirstOr(Base64Alt(s, p), s, p)

\* {{\s* has matched k blanks from position i on: the rest of the pattern,
\* giving blanks back one at a time when it does not match
RECURSIVE AfterBlanks(_, _, _)
TryBlanks(m, s, i, k) ==
    IF m.ok \/ k = 0 THEN m ELSE AfterBlanks(s, i, k - 1)

AfterBlanks(s, i, k) == TryBlanks(AltAt(s, i + k), s, i, k)

\* the whole pattern at position i
MatchAt(s, i) ==
    IF ~HasAt(s, i, "{{") THEN NoMatch
    ELSE AfterBlanks(s, i + 2, SpaceRun(s, i + 2))

\* the leftmost match that starts at position i or later
RECURSIVE FirstMatch(_, _)
MatchOrLater(m, s, i) == IF m.ok THEN m ELSE FirstMatch(s, i + 1)

FirstMatch(s, i) ==
    IF i > Len(s) THEN NoMatch ELSE MatchOrLater(MatchAt(s, i), s, i)

\* templateRegex.FindAllStringSubmatch(s, -1) from position i on: the
\* non-overlapping matches, left to right
RECURSIVE FindAllFrom(_, _)
MatchAndRest(m, s) ==
    IF ~m.ok THEN << >> ELSE <<m.g>> \o FindAllFrom(s, m.end)

FindAllFrom(s, i) == MatchAndRest(FirstMatch(s, i), s)

\* FindAllStringSubmatch returns nil when nothing matches
SliceOf(ms) == [isNil |-> ms = << >>, elems |-> ms]

FindAllStringSubmatch(s) == SliceOf(FindAllFrom(s, 1))

\* the non-empty groups of one match, in group order
GroupsOf(g) ==
    (IF g[1] # "" THEN <<g[1]>> ELSE << >>) \o
    (IF g[2] # "" THEN <<g[2]>> ELSE << >>) \o
    (IF g[3] # "" THEN <<g[3]>> ELSE << >>)

RECURSIVE Flatten(_)
Flatten(ms) ==
    IF ms = << >> THEN << >> ELSE GroupsOf(Head(ms)) \o Flatten(Tail(ms))

\* the body of extractVariables after matches := FindAllStringSubmatch(s, -1)
ResultsOf(matches) ==
    IF matches.isNil
    THEN [isNil |-> FALSE, elems |-> << >>]
    ELSE [isNil |-> FALSE, elems |-> Flatten(matches.elems)]

extractVariables(s) == ResultsOf(FindAllStringSubmatch(s))

-----------------------------------------------------------------------------
(* HostInfo.GetVariables.                                                  *)

Range(f) == {f[x] : x \in DOMAIN f}

\* the orders in which a range over a map with key set S may visit it
Orders(S) ==
    {f \in [1 .. Cardinality(S) -> S] : \A i, j \in DOMAIN f : f[i] = f[j] => i = j}

\* the inner loop without the set: every v is appended
AppendAll(results, vs) == results \o vs

\* the inner loop: append each v of vs that the set does not hold yet
RECURSIVE AppendNew(_, _)
AppendNew(results, vs) ==
    IF vs = << >> THEN results
    ELSE AppendNew(IF Head(vs) \in Range(results) THEN results
                   ELSE Append(results, Head(vs)),
                   Tail(vs))

\* one range over the map m, visiting its keys in the order ks
RECURSIVE ScanValues(_, _, _)
ScanValues(results, m, ks) ==
    IF ks = << >> THEN results
    ELSE ScanValues(AppendNew(results, extractVariables(m[Head(ks)]).elems),
                    m, Tail(ks))

GetVariables(h, ord) ==
    [isNil |-> FALSE,
     elems |-> ScanValues(ScanValues(<< >>, h.Headers, ord.h),
                          h.QueryParameters, ord.q)]

\* results[host.Name] = vars without the test of len(vars)
StoreAlways(results, name, vs) ==
    [x \in DOMAIN results \cup {name} |-> IF x = name THEN vs ELSE results[x]]

\* if len(vars) > 0 { results[host.Name] = vars }
StoreIfAny(results, name, vs) ==
    IF Len(vs) > 0
    THEN [x \in DOMAIN results \cup {name} |-> IF x = name THEN vs ELSE results[x]]
    ELSE results

\* the range over m.Hosts, visiting the keys in the order ks; per[k] is the
\* order in which host k ranges over its own maps
RECURSIVE ScanHosts(_, _, _, _)
ScanHosts(results, hosts, ks, per) ==
    IF ks = << >> THEN results
    ELSE ScanHosts(StoreIfAny(results, hosts[Head(ks)].Name,
                              GetVariables(hosts[Head(ks)], per[Head(ks)]).elems),
                   hosts, Tail(ks), per)

\* m.GetHostVariables()
GetHostVariables(m, ord) == ScanHosts([k \in {} |-> << >>], m.Hosts, ord.scan, ord.per)

\* PostgresqlHostInfo.GetVariables
PostgresqlGetVariables(h) == extractVariables(h.ConnStr)

\* DgraphCloudHostInfo.GetVariables
DgraphCloudGetVariables(h) == extractVariables(h.Key)

-----------------------------------------------------------------------------
(* Documents.  The bytes of a document are modelled by what the two        *)
(* decoders read from them: whether the relaxed grammar accepts them       *)
(* (syntax), whether they are already strict JSON (standard: no comment,   *)
(* no trailing comma), the kind of the top-level value, and the JSON value *)
(* found under each of the keys "models", "hosts" and "collections".  A    *)
(* JSON object is a map from its keys, a JSON array a sequence.  An        *)
(* attribute that is missing decodes like the empty string; `bad` marks an *)
(* element one of whose string attributes holds a number.                  *)

EmptyMap == [k \in {} |-> ""]

Put(m, k, v) == [x \in DOMAIN m \cup {k} |-> IF x = k THEN v ELSE m[x]]

ModelNames == {"m1", "m2"}
HostNames == {"h1", "h2"}
Endpoints == {"https://e1", "https://e2"}
AuthHeaders == {"", "X-API-Key"}

ModelBodies ==
    {[name |-> n, sourceModel |-> "source-model", provider |-> "provider",
      host |-> "h1", bad |-> b] : n \in ModelNames, b \in BOOLEAN}

HostBody(n, e, b, a, hd, qp, bad) ==
    [name |-> n, endpoint |-> e, baseURL |-> b, authHeader |-> a,
     headers |-> hd, queryParameters |-> qp, bad |-> bad]

\* a host element that also declares a "type"
WithType(body, t) ==
    [f \in DOMAIN body \cup {"type"} |-> IF f = "type" THEN t ELSE body[f]]

\* host elements as the legacy shape writes them
LegacyHostBodies ==
    {HostBody(n, e, "", a, EmptyMap, EmptyMap, FALSE) :
        n \in HostNames, e \in Endpoints, a \in AuthHeaders}

\* host elements as the current shape writes them (a "name" attribute in
\* the body is not part of the shape)
CurrentHostBodies ==
    { HostBody("", "https://e1", "", "", [k \in {"X-API-Key"} |-> "{{API_KEY}}"], EmptyMap, FALSE),
      HostBody("h2", "", "https://e2", "", EmptyMap, [k \in {"api_token"} |-> "{{API_TOKEN}}"], FALSE),
      HostBody("", "", "https://e2", "", EmptyMap, EmptyMap, TRUE),
      WithType(HostBody("", "https://e1", "", "", EmptyMap, EmptyMap, FALSE), "bogus") }

CollectionBody ==
    [SearchMethods |->
        [k \in {"searchMethod1"} |->
            [Embedder |-> "embedder1",
             Index |-> [Type |-> "hnsw",
                        Options |-> [EfConstruction |-> 100, MaxLevels |-> 3]]]]]

Field(kind, obj, arr) == [kind |-> kind, obj |-> obj, arr |-> arr]

Absent == Field("absent", EmptyMap, << >>)
AString == Field("string", EmptyMap, << >>)

SeqsUpTo(S, n) == UNION {[1 .. k -> S] : k \in 0 .. n}

\* objects with at most one key
ObjectsOver(keys, bodies) ==
    {EmptyMap} \cup {[x \in {k} |-> b] : k \in keys, b \in bodies}

ModelsFields ==
    {Absent, AString}
    \cup {Field("object", o, << >>) : o \in ObjectsOver(ModelNames, ModelBodies)}
    \cup {Field("array", EmptyMap, a) : a \in SeqsUpTo(ModelBodies, MaxModels)}

HostsFields ==
    {Absent, AString}
    \cup {Field("object", o, << >>) : o \in ObjectsOver(HostNames, CurrentHostBodies)}
    \cup {Field("array", EmptyMap, a) : a \in SeqsUpTo(LegacyHostBodies, MaxHosts)}

CollectionsFields ==
    {Absent, AString, Field("object", [k \in {"collection1"} |-> CollectionBody], << >>)}

Doc(syntax, standard, top, m, h, c) ==
    [syntax |-> syntax, standard |-> standard, top |-> top,
     models |-> m, hosts |-> h, collections |-> c]

\* documents the relaxed grammar rejects (their value is never read)
MalformedDocs ==
    {Doc(x, FALSE, "object", Absent, Absent, Absent) :
        x \in {"unterminated comment", "unbalanced brace"}}

\* documents whose top-level value is no object
NonObjectDocs ==
    {Doc("ok", st, t, Absent, Absent, Absent) :
        st \in BOOLEAN, t \in {"null", "string"}}

ObjectDocs ==
    {Doc("ok", st, "object", m, h, c) :
        st \in BOOLEAN, m \in ModelsFields, h \in HostsFields, c \in CollectionsFields}

Docs == MalformedDocs \cup NonObjectDocs \cup ObjectDocs

NoDoc == Doc("", FALSE, "", Absent, Absent, Absent)

-----------------------------------------------------------------------------
(* Errors: the chain of messages fmt.Errorf("...: %w") wraps around the    *)
(* error a library call returned (by: the call, what: what it rejected).   *)

NoError == [wrap |-> << >>, by |-> "", what |-> ""]

NewError(by, what) == [wrap |-> << >>, by |-> by, what |-> what]

Wrap(msg, e) == [e EXCEPT !.wrap = <<msg>> \o e.wrap]

Unwrap(e) == [e EXCEPT !.wrap = Tail(e.wrap)]

-----------------------------------------------------------------------------
(* The canonical shape and the two decoders.                               *)

currentVersion == 2

V1AuthHeaderVariableName == "__V1_AUTH_HEADER_VALUE__"

\* var manifest HypermodeManifest
ZeroManifest ==
    [Version |-> 0, Models |-> EmptyMap, Hosts |-> EmptyMap, Collections |-> EmptyMap]

\* standardizeJSON: hujson.Parse, Standardize, Pack
standardizeJSON(b) ==
    IF b.syntax # "ok"
    THEN [data |-> b, err |-> NewError("hujson.Parse", b.syntax)]
    ELSE [data |-> [b EXCEPT !.standard = TRUE], err |-> NoError]

\* a JSON object decoded into ModelInfo, the host reference not kept
ModelInfoOfWithoutHost(body) ==
    [Name |-> "",
     SourceModel |-> IF body.bad THEN "" ELSE body.sourceModel,
     Provider |-> body.provider,
     Host |-> ""]

\* a JSON object decoded into ModelInfo (Name has the tag json:"-")
ModelInfoOf(body) ==
    [Name |-> "",
     SourceModel |-> IF body.bad THEN "" ELSE body.sourceModel,
     Provider |-> body.provider,
     Host |-> body.host]

\* a JSON object decoded into HostInfo (Name has the tag json:"-")
HostInfoOf(body) ==
    [Name |-> "",
     Endpoint |-> IF body.bad THEN "" ELSE body.endpoint,
     BaseURL |-> body.baseURL,
     Headers |-> body.headers,
     QueryParameters |-> body.queryParameters]

\* a JSON object decoded into a map field: the keys of the object, each
\* with its decoded element, are added to the map the field holds
DecodeMap(old, kind, decoded) ==
    IF kind = "object"
    THEN [k \in DOMAIN old \cup DOMAIN decoded |->
            IF k \in DOMAIN decoded THEN decoded[k] ELSE old[k]]
    ELSE old

\* whether decoding `field` into a map of structs records a type error
MapFieldFails(field, hasBad) ==
    \/ field.kind \in {"string", "array"}
    \/ field.kind = "object" /\ hasBad /\ \E k \in DOMAIN field.obj : field.obj[k].bad

\* whether decoding `field` into a slice of structs records a type error
SliceFieldFails(field) ==
    \/ field.kind \in {"string", "object"}
    \/ field.kind = "array" /\ \E i \in DOMAIN field.arr : field.arr[i].bad

\* the first field, in document order, for which `fails` holds
FirstFailing(fails) ==
    IF fails["models"] THEN "models"
    ELSE IF fails["hosts"] THEN "hosts"
    ELSE IF fails["collections"] THEN "collections"
    ELSE ""

\* json.Unmarshal(data, &manifest) with manifest a *HypermodeManifest:
\* a type error is recorded and decoding goes on, so everything that does
\* decode is written to *manifest; a top-level null sets the pointer
\* itself to nil (nilled).
UnmarshalCurrent(d, m) ==
    IF ~d.standard
    THEN [m |-> m, nilled |-> FALSE, err |-> NewError("json.Unmarshal current", "syntax")]
    ELSE IF d.top = "null"
    THEN [m |-> m, nilled |-> TRUE, err |-> NoError]
    ELSE IF d.top # "object"
    THEN [m |-> m, nilled |-> FALSE, err |-> NewError("json.Unmarshal current", "value")]
    ELSE LET fails == [f \in {"models", "hosts", "collections"} |->
                          CASE f = "models" -> MapFieldFails(d.models, TRUE)
                            [] f = "hosts" -> MapFieldFails(d.hosts, TRUE)
                            [] OTHER -> MapFieldFails(d.collections, FALSE)]
             bad == FirstFailing(fails)
         IN  [m |-> [Version |-> m.Version,
                     Models |-> DecodeMap(m.Models, d.models.kind,
                                         [k \in DOMAIN d.models.obj |-> ModelInfoOf(d.models.obj[k])]),
                     Hosts |-> DecodeMap(m.Hosts, d.hosts.kind,
                                        [k \in DOMAIN d.hosts.obj |-> HostInfoOf(d.hosts.obj[k])]),
                     Collections |-> DecodeMap(m.Collections, d.collections.kind, d.collections.obj)],
              nilled |-> FALSE,
              err |-> IF bad = "" THEN NoError
                      ELSE NewError("json.Unmarshal current", bad)]

\* no back-fill: the entries keep the Name the decoder left
KeysNotCopied(m) == m

\* the name back-fill: every entry gets its key as Name
CopyKeysToNames(m) == [k \in DOMAIN m |-> [m[k] EXCEPT !.Name = k]]

parseManifestJson(d, m) ==
    LET u == UnmarshalCurrent(d, m)
    IN  IF u.err # NoError
        THEN [m |-> u.m, err |-> Wrap("failed to parse manifest", u.err), panicked |-> FALSE]
        ELSE IF u.nilled
        THEN [m |-> m, err |-> NoError, panicked |-> TRUE]
        ELSE [m |-> [Version |-> currentVersion,
                     Models |-> CopyKeysToNames(u.m.Models),
                     Hosts |-> CopyKeysToNames(u.m.Hosts),
                     Collections |-> u.m.Collections],
              err |-> NoError, panicked |-> FALSE]

\* a JSON object decoded into the legacy Model
LegacyModelOf(body) ==
    [Name |-> body.name,
     SourceModel |-> IF body.bad THEN "" ELSE body.sourceModel,
     Provider |-> body.provider,
     Host |-> body.host]

\* a JSON object decoded into the legacy Host
LegacyHostOf(body) ==
    [Name |-> body.name,
     Endpoint |-> IF body.bad THEN "" ELSE body.endpoint,
     AuthHeader |-> body.authHeader]

\* json.Unmarshal(data, &v1_man)
UnmarshalV1(d) ==
    IF ~d.standard
    THEN [Models |-> << >>, Hosts |-> << >>, err |-> NewError("json.Unmarshal v1", "syntax")]
    ELSE IF d.top = "null"
    THEN [Models |-> << >>, Hosts |-> << >>, err |-> NoError]
    ELSE IF d.top # "object"
    THEN [Models |-> << >>, Hosts |-> << >>, err |-> NewError("json.Unmarshal v1", "value")]
    ELSE LET fails == [f \in {"models", "hosts", "collections"} |->
                          CASE f = "models" -> SliceFieldFails(d.models)
                            [] f = "hosts" -> SliceFieldFails(d.hosts)
                            [] OTHER -> FALSE]
             bad == FirstFailing(fails)
         IN  [Models |-> IF d.models.kind = "array"
                         THEN [i \in DOMAIN d.models.arr |-> LegacyModelOf(d.models.arr[i])]
                         ELSE << >>,
              Hosts |-> IF d.hosts.kind = "array"
                        THEN [i \in DOMAIN d.hosts.arr |-> LegacyHostOf(d.hosts.arr[i])]
                        ELSE << >>,
              err |-> IF bad = "" THEN NoError ELSE NewError("json.Unmarshal v1", bad)]

\* the canonical model of a legacy model
ModelOfLegacy(model) ==
    [Name |-> model.Name, SourceModel |-> model.SourceModel,
     Provider |-> model.Provider, Host |-> model.Host]

\* the legacy endpoint copied to Endpoint alone
HostOfLegacyEndpointOnly(h) ==
    [Name |-> h.Name,
     Endpoint |-> h.Endpoint,
     BaseURL |-> "",
     Headers |-> IF h.AuthHeader # ""
                 THEN [k \in {h.AuthHeader} |-> "{{" \o V1AuthHeaderVariableName \o "}}"]
                 ELSE EmptyMap,
     QueryParameters |-> EmptyMap]

\* the header value naming the header instead of the reserved variable
HostOfLegacyNamedByHeader(h) ==
    [Name |-> h.Name,
     Endpoint |-> h.Endpoint,
     BaseURL |-> h.Endpoint,
     Headers |-> IF h.AuthHeader # ""
                 THEN [k \in {h.AuthHeader} |-> "{{" \o h.AuthHeader \o "}}"]
                 ELSE EmptyMap,
     QueryParameters |-> EmptyMap]

\* the canonical host of a legacy host
HostOfLegacy(h) ==
    [Name |-> h.Name,
     Endpoint |-> h.Endpoint,
     BaseURL |-> h.Endpoint,
     Headers |-> IF h.AuthHeader # ""
                 THEN [k \in {h.AuthHeader} |-> "{{" \o V1AuthHeaderVariableName \o "}}"]
                 ELSE EmptyMap,
     QueryParameters |-> EmptyMap]

\* for _, model := range v1_man.Models { manifest.Models[model.Name] = ... }
RECURSIVE CopyModels(_, _)
CopyModels(m, xs) ==
    IF xs = << >> THEN m
    ELSE CopyModels(Put(m, Head(xs).Name, ModelOfLegacy(Head(xs))), Tail(xs))

\* for _, host := range v1_man.Hosts { ...; manifest.Hosts[host.Name] = h }
RECURSIVE CopyHosts(_, _)
CopyHosts(m, xs) ==
    IF xs = << >> THEN m
    ELSE CopyHosts(Put(m, Head(xs).Name, HostOfLegacy(Head(xs))), Tail(xs))

\* the legacy path without manifest.Version = 1
parseManifestJsonV1VersionUnset(d, m) ==
    LET v1_man == UnmarshalV1(d)
    IN  IF v1_man.err # NoError
        THEN [m |-> m, err |-> v1_man.err]
        ELSE [m |-> [Version |-> m.Version,
                     Models |-> CopyModels(EmptyMap, v1_man.Models),
                     Hosts |-> CopyHosts(EmptyMap, v1_man.Hosts),
                     Collections |-> m.Collections],
              err |-> NoError]

parseManifestJsonV1(d, m) ==
    LET v1_man == UnmarshalV1(d)
    IN  IF v1_man.err # NoError
        THEN [m |-> m, err |-> v1_man.err]
        ELSE [m |-> [Version |-> 1,
                     Models |-> CopyModels(EmptyMap, v1_man.Models),
                     Hosts |-> CopyHosts(EmptyMap, v1_man.Hosts),
                     Collections |-> m.Collections],
              err |-> NoError]

-----------------------------------------------------------------------------
(* Hash.  sha256.Sum256 and hex.EncodeToString are modelled as a digest    *)
(* that is different for different inputs: [sha256 |-> data].              *)

Sum256(input) == [sha256 |-> input]

\* the keys of the maps that are hashed, in ascending byte order
KeyOrder == <<"Authorization", "X-API-Key", "a", "api_token", "c", "key">>

\* the keys printed in the order the map yields them
KeysAsIterated(ks) == ks

\* fmt prints a map with its keys sorted, whatever order the map yields
RECURSIVE KeysIn(_, _)
KeysIn(sorted, S) ==
    IF sorted = << >> THEN << >>
    ELSE (IF Head(sorted) \in S THEN <<Head(sorted)>> ELSE << >>) \o KeysIn(Tail(sorted), S)

SortKeys(ks) == KeysIn(KeyOrder, Range(ks))

RECURSIVE PrintEntries(_, _)
PrintEntries(m, ks) ==
    IF ks = << >> THEN ""
    ELSE Head(ks) \o ":" \o m[Head(ks)]
         \o (IF Tail(ks) = << >> THEN "" ELSE " " \o PrintEntries(m, Tail(ks)))

\* fmt.Sprintf("%v", m) for a map[string]string whose range yields ks
SprintMap(m, ks) == "map[" \o PrintEntries(m, SortKeys(ks)) \o "]"

\* ModelInfo.Hash without the provider
ModelInfoHashWithoutProvider(m) ==
    Sum256(m.Name \o "|" \o m.SourceModel \o "|" \o m.Host)

\* ModelInfo.Hash of manifest.go (Name, SourceModel, Provider, Host)
ModelInfoHash(m) ==
    Sum256(m.Name \o "|" \o m.SourceModel \o "|" \o m.Provider \o "|" \o m.Host)

\* ModelInfo.Hash of model.go (the struct has Path and Mode as well)
ModelInfoHashWithMode(m) ==
    Sum256(m.Name \o "|" \o m.SourceModel \o "|" \o m.Provider \o "|" \o m.Host
           \o "|" \o m.Mode)

\* HostInfo.Hash; ord holds the orders in which the two maps yield their keys
HostInfoHash(h, ord) ==
    Sum256(h.Name \o "|" \o h.Endpoint \o "|" \o h.BaseURL
           \o "|" \o SprintMap(h.Headers, ord.h)
           \o "|" \o SprintMap(h.QueryParameters, ord.q))

\* DgraphCloudHostInfo.Hash
DgraphCloudHostInfoHash(h) ==
    Sum256(h.Name \o "|" \o h.Type \o "|" \o h.Endpoint \o "|" \o h.Key)

-----------------------------------------------------------------------------
(* Inputs.                                                                 *)

NilSlice == [isNil |-> TRUE, elems |-> << >>]

\* strings written from pieces: text without braces, {{NAME}} with or
\* without blanks inside the braces, and the two spellings of the pair
VarNames == {"A", "API_KEY"}
Texts == {"Bearer ", ":", "x"}

Seg(kind, a, b, pad, text) == [kind |-> kind, a |-> a, b |-> b, pad |-> pad, text |-> text]

Segments ==
    {Seg("text", "", "", "", t) : t \in Texts}
    \cup {Seg("simple", a, "", pad, "") : a \in VarNames, pad \in {"", " "}}
    \cup {Seg(k, a, b, "", "") : k \in {"base64", "base64colon"}, a \in VarNames, b \in VarNames}
    \cup {Seg("base64", a, b, " ", "") : a \in VarNames, b \in VarNames}
    \cup {Seg("blank", "", "", " ", "")}

Render(seg) ==
    CASE seg.kind = "simple" -> "{{" \o seg.pad \o seg.a \o seg.pad \o "}}"
      [] seg.kind = "base64" ->
            "{{" \o seg.pad \o "base64(" \o seg.pad \o seg.a \o seg.pad \o ":"
                 \o seg.pad \o seg.b \o seg.pad \o ")" \o seg.pad \o "}}"
      [] seg.kind = "blank" -> "{{" \o seg.pad \o "}}"
      [] seg.kind = "base64colon" -> "{{base64:(" \o seg.a \o ":" \o seg.b \o ")}}"
      [] OTHER -> seg.text

RECURSIVE RenderAll(_)
RenderAll(ss) == IF ss = << >> THEN "" ELSE Render(Head(ss)) \o RenderAll(Tail(ss))

\* every string up to MaxStrLen over a small alphabet
Alphabet == {"{", "}", "A", " ", ":"}

RECURSIVE StringsOfLen(_)
StringsOfLen(n) ==
    IF n = 0 THEN {""} ELSE {s \o c : s \in StringsOfLen(n - 1), c \in Alphabet}

ShortStrings == UNION {StringsOfLen(n) : n \in 0 .. MaxStrLen}

ExtractInputs ==
    SeqsUpTo(Segments, MaxSegs) \cup {<<Seg("raw", "", "", "", s)>> : s \in ShortStrings}

\* hosts for GetVariables
HeaderKeys == {"Authorization", "X-API-Key"}
QueryKeys == {"api_token", "key"}
TemplateValues == {"plain", "Bearer {{A}}", "{{B}} {{A}}", "{{base64(C:A)}}"}

MapsOver(keys, vals) == UNION {[ks -> vals] : ks \in SUBSET keys}

HostInputs ==
    {[Name |-> "h1", Endpoint |-> "", BaseURL |-> "https://e1",
      Headers |-> hd, QueryParameters |-> qp] :
        hd \in MapsOver(HeaderKeys, TemplateValues),
        qp \in MapsOver(QueryKeys, TemplateValues)}

\* the hosts of the two other variants, their one attribute written from
\* the pieces ss
PostgresqlHost(ss) ==
    [variant |-> "PostgresqlHostInfo", Name |-> "db", Type |-> "postgresql",
     ConnStr |-> RenderAll(ss)]

DgraphCloudHost(ss) ==
    [variant |-> "DgraphCloudHostInfo", Name |-> "dg", Type |-> "dgraph-cloud",
     Endpoint |-> "https://e1", Key |-> RenderAll(ss)]

AttributeInputs == SeqsUpTo(Segments, MaxSegs)

\* manifests for GetHostVariables, as ReadManifest returns them (Name is the
\* key): hosts without a placeholder, with one, and with several in two
\* headers and a query parameter
HostShapes ==
    { [Headers |-> EmptyMap, QueryParameters |-> EmptyMap],
      [Headers |-> [k \in {"Authorization"} |-> "plain"], QueryParameters |-> EmptyMap],
      [Headers |-> [k \in {"Authorization"} |-> "Bearer {{A}}"], QueryParameters |-> EmptyMap],
      [Headers |-> [k \in HeaderKeys |-> IF k = "Authorization" THEN "Bearer {{A}}" ELSE "{{B}} {{A}}"],
       QueryParameters |-> [k \in {"key"} |-> "{{base64(C:A)}}"]] }

HostOfShape(n, sh) ==
    [Name |-> n, Endpoint |-> "", BaseURL |-> "https://e1",
     Headers |-> sh.Headers, QueryParameters |-> sh.QueryParameters]

ManifestInputs ==
    {[Version |-> currentVersion,
      Models |-> EmptyMap,
      Hosts |-> [n \in ns |-> HostOfShape(n, f[n])],
      Collections |-> EmptyMap] : f \in [HostNames -> HostShapes], ns \in SUBSET HostNames}

\* the orders in which the ranges of GetHostVariables may visit the maps
MapOrders(h) ==
    {[h |-> oh, q |-> oq] : oh \in Orders(DOMAIN h.Headers), oq \in Orders(DOMAIN h.QueryParameters)}

HostOrders(hosts) ==
    {per \in [DOMAIN hosts -> UNION {MapOrders(hosts[k]) : k \in DOMAIN hosts}] :
        \A k \in DOMAIN hosts : per[k] \in MapOrders(hosts[k])}

\* values to hash: every attribute takes two values, some hold the
\* delimiter, and the maps hold values with a blank and a colon
ModelInfos ==
    {[Name |-> n, SourceModel |-> sm, Provider |-> pr, Host |-> h] :
        n \in {"a", "a|b"}, sm \in {"c", "b|c"}, pr \in {"p", "q"}, h \in {"h", "g"}}

ModelInfosWithMode ==
    {[Name |-> n, SourceModel |-> sm, Provider |-> pr, Host |-> h, Path |-> pa, Mode |-> mo] :
        n \in {"a", "a|b"}, sm \in {"c", "b|c"}, pr \in {"p", "q"}, h \in {"h", "g"},
        pa \in {"", "x"}, mo \in {"", "y"}}

DgraphCloudHostInfos ==
    {[Name |-> n, Type |-> t, Endpoint |-> e, Key |-> k] :
        n \in {"a", "a|b"}, t \in {"dgraph-cloud", "b|dgraph-cloud"},
        e \in {"e", "f"}, k \in {"k", "{{K}}"}}

HostInfos ==
    {[Name |-> n, Endpoint |-> "e", BaseURL |-> "u", Headers |-> hd, QueryParameters |-> qp] :
        n \in {"a", "b"},
        hd \in MapsOver({"a", "c"}, {"b", "d", "b c:d"}),
        qp \in {EmptyMap, [k \in {"key"} |-> "v"]}}

\* hosts GetVariables is called on twice: up to two headers and two query
\* parameters, naming different variables
RepeatedHosts ==
    {[Name |-> "h1", Endpoint |-> "", BaseURL |-> "https://e1",
      Headers |-> hd, QueryParameters |-> qp] :
        hd \in MapsOver(HeaderKeys, {"Bearer {{A}}", "{{B}} {{A}}"}),
        qp \in MapsOver(QueryKeys, {"plain", "{{base64(C:A)}}"})}

NoHost ==
    [Name |-> "", Endpoint |-> "", BaseURL |-> "",
     Headers |-> EmptyMap, QueryParameters |-> EmptyMap]

NoOrder == [h |-> << >>, q |-> << >>]

\* documents for ValidateManifest
ValidateDocs ==
    MalformedDocs \cup NonObjectDocs
    \cup {Doc("ok", st, "object", m, Absent, Absent) :
            st \in BOOLEAN,
            m \in {Absent, AString, Field("array", EmptyMap, << >>)}}

-----------------------------------------------------------------------------
(* The state machine.  A behaviour is one call: the initial state holds    *)
(* the operation called and its argument, the actions are the steps of the *)
(* operation in program order, and pc = "done" when it has ended.          *)

Call(fn, bytes) == [fn |-> fn, standard |-> bytes.standard]

\* what no step of a single call writes: its arguments, and the variables
\* of the other operations
UNCHANGED_inputs ==
    UNCHANGED <<op, content, schemaOK, conforms, str, segs, host, order, args, procs, shared>>

\* var schemaContent string (go:embed) and var templateRegex
PackageVars == [schemaContent |-> "hypermode.json", templateRegex |-> "templateRegex"]

NoArgs == [variant |-> ""]
NoRet == << >>
NoProcs == [locals |-> << >>, data |-> << >>]

\* the state every call starts from, its argument aside
Fresh ==
    /\ data = NoDoc
    /\ manifest = ZeroManifest
    /\ err = NoError
    /\ outcome = "none"
    /\ calls = << >>
    /\ extracted = NilSlice
    /\ hostVars = NilSlice
    /\ ret = NoRet
    /\ procs = NoProcs
    /\ shared = PackageVars

NoStringInput == str = "" /\ segs = << >>
NoHostInput == host = NoHost /\ order = NoOrder

\* ReadManifest(c)
InitReadManifest(c) ==
    /\ op = "ReadManifest" /\ pc = "rm_standardize"
    /\ content = c /\ schemaOK = TRUE /\ conforms = TRUE
    /\ NoStringInput /\ NoHostInput /\ args = NoArgs /\ Fresh

\* ValidateManifest(c), with the bundled schema the build embeds: whether
\* its text compiles (ok) and whether it accepts the document (acc)
InitValidateManifest(c, ok, acc) ==
    /\ op = "ValidateManifest" /\ pc = "vm_compile"
    /\ content = c /\ schemaOK = ok /\ conforms = acc
    /\ NoStringInput /\ NoHostInput /\ args = NoArgs /\ Fresh

\* extractVariables(s), s written from the pieces ss
InitExtractVariables(ss) ==
    /\ op = "extractVariables" /\ pc = "ev_call"
    /\ segs = ss /\ str = RenderAll(ss)
    /\ content = NoDoc /\ schemaOK = TRUE /\ conforms = TRUE
    /\ NoHostInput /\ args = NoArgs /\ Fresh

\* h.GetVariables(), the two ranges visiting the keys in the order ord
InitGetVariables(h, ord) ==
    /\ op = "GetVariables" /\ pc = "gv_call"
    /\ host = h /\ order = ord
    /\ content = NoDoc /\ schemaOK = TRUE /\ conforms = TRUE
    /\ NoStringInput /\ args = NoArgs /\ Fresh

\* h.GetVariables() on a PostgresqlHostInfo
InitPostgresqlGetVariables(ss) ==
    /\ op = "PostgresqlHostInfo.GetVariables" /\ pc = "pg_call"
    /\ args = PostgresqlHost(ss)
    /\ segs = ss /\ str = RenderAll(ss)
    /\ content = NoDoc /\ schemaOK = TRUE /\ conforms = TRUE
    /\ NoHostInput /\ Fresh

\* h.GetVariables() on a DgraphCloudHostInfo
InitDgraphCloudGetVariables(ss) ==
    /\ op = "DgraphCloudHostInfo.GetVariables" /\ pc = "dg_call"
    /\ args = DgraphCloudHost(ss)
    /\ segs = ss /\ str = RenderAll(ss)
    /\ content = NoDoc /\ schemaOK = TRUE /\ conforms = TRUE
    /\ NoHostInput /\ Fresh

\* m.GetHostVariables()
InitGetHostVariables(m, ord) ==
    /\ op = "GetHostVariables" /\ pc = "ghv_call"
    /\ args = [variant |-> "HypermodeManifest", m |-> m]
    /\ order = ord /\ host = NoHost
    /\ content = NoDoc /\ schemaOK = TRUE /\ conforms = TRUE
    /\ NoStringInput /\ Fresh

\* x.Hash() and then y.Hash(); ords are the orders in which the maps of x
\* and of y yield their keys during the call
InitHash(variant, x, y, ords) ==
    /\ op = "Hash" /\ pc = "hash_call"
    /\ args = [variant |-> variant, recv |-> <<x, y>>]
    /\ order = ords /\ host = NoHost
    /\ content = NoDoc /\ schemaOK = TRUE /\ conforms = TRUE
    /\ NoStringInput /\ Fresh

\* x.GetVariables(); y.GetVariables(), the ranges of the two calls visiting
\* the keys in the orders ords[1] and ords[2]
InitGetVariablesTwice(x, y, ords) ==
    /\ op = "GetVariables twice" /\ pc = "gv2_call"
    /\ args = [variant |-> "HostInfo", recv |-> <<x, y>>]
    /\ order = ords /\ host = NoHost
    /\ content = NoDoc /\ schemaOK = TRUE /\ conforms = TRUE
    /\ NoStringInput /\ Fresh

Init ==
    \/ \E c \in Docs : InitReadManifest(c)
    \/ \E x \in RepeatedHosts, n \in HostNames :
         \E ox, oy \in MapOrders(x) :
            InitGetVariablesTwice(x, [x EXCEPT !.Name = n], <<ox, oy>>)
    \/ \E x, y \in ModelInfos : InitHash("ModelInfo", x, y, <<NoOrder, NoOrder>>)
    \/ \E x, y \in ModelInfosWithMode :
         InitHash("ModelInfo (model.go)", x, y, <<NoOrder, NoOrder>>)
    \/ \E x, y \in DgraphCloudHostInfos :
         InitHash("DgraphCloudHostInfo", x, y, <<NoOrder, NoOrder>>)
    \/ \E x, y \in HostInfos :
         \E ox \in MapOrders(x), oy \in MapOrders(y) : InitHash("HostInfo", x, y, <<ox, oy>>)
    \/ \E m \in ManifestInputs :
         \E scan \in Orders(DOMAIN m.Hosts), per \in HostOrders(m.Hosts) :
            InitGetHostVariables(m, [scan |-> scan, per |-> per])
    \/ \E ss \in AttributeInputs : InitPostgresqlGetVariables(ss)
    \/ \E ss \in AttributeInputs : InitDgraphCloudGetVariables(ss)
    \/ \E c \in ValidateDocs, ok \in BOOLEAN, acc \in BOOLEAN : InitValidateManifest(c, ok, acc)
    \/ \E ss \in ExtractInputs : InitExtractVariables(ss)
    \/ \E h \in HostInputs :
         \E oh \in Orders(DOMAIN h.Headers), oq \in Orders(DOMAIN h.QueryParameters) :
            InitGetVariables(h, [h |-> oh, q |-> oq])

\* data, err := standardizeJSON(content); if err != nil { return manifest, err }
ReadStandardize ==
    /\ pc = "rm_standardize"
    /\ LET r == standardizeJSON(content)
       IN  /\ calls' = Append(calls, Call("standardizeJSON", content))
           /\ data' = r.data
           /\ err' = r.err
           /\ IF r.err # NoError
              THEN pc' = "done" /\ outcome' = "returned"
              ELSE pc' = "rm_parse" /\ outcome' = outcome
    /\ UNCHANGED <<manifest, extracted, hostVars, ret>>
    /\ UNCHANGED_inputs

\* err = parseManifestJson(data, &manifest); if err == nil { return manifest, nil }
ReadParseCurrent ==
    /\ pc = "rm_parse"
    /\ LET r == parseManifestJson(data, manifest)
       IN  /\ calls' = Append(calls, Call("parseManifestJson", data))
           /\ manifest' = r.m
           /\ err' = r.err
           /\ IF r.panicked
              THEN pc' = "done" /\ outcome' = "panicked"
              ELSE IF r.err = NoError
              THEN pc' = "done" /\ outcome' = "returned"
              ELSE pc' = "rm_parseV1" /\ outcome' = outcome
    /\ UNCHANGED <<data, extracted, hostVars, ret>>
    /\ UNCHANGED_inputs

\* the error of the first decode wrapped in place of the last
ParseFailureOfFirst(currentErr, legacyErr) == Wrap("failed to parse manifest", currentErr)

\* the error ReadManifest returns when the legacy decode failed too
ParseFailure(currentErr, legacyErr) == Wrap("failed to parse manifest", legacyErr)

\* err = parseManifestJsonV1(data, &manifest); if err == nil { return manifest, nil }
\* return manifest, fmt.Errorf("failed to parse manifest: %w", err)
ReadParseV1 ==
    /\ pc = "rm_parseV1"
    /\ LET r == parseManifestJsonV1(data, manifest)
       IN  /\ calls' = Append(calls, Call("parseManifestJsonV1", data))
           /\ manifest' = r.m
           /\ err' = IF r.err = NoError THEN NoError ELSE ParseFailure(err, r.err)
    /\ pc' = "done"
    /\ outcome' = "returned"
    /\ UNCHANGED <<data, extracted, hostVars, ret>>
    /\ UNCHANGED_inputs

\* sch, err := jsonschema.CompileString(...); if err != nil { return err }
ValidateCompile ==
    /\ pc = "vm_compile"
    /\ calls' = Append(calls, [fn |-> "CompileString", standard |-> TRUE])
    /\ IF ~schemaOK
       THEN /\ err' = NewError("jsonschema.CompileString", "schema")
            /\ pc' = "done"
            /\ outcome' = "returned"
       ELSE /\ err' = NoError
            /\ pc' = "vm_standardize"
            /\ outcome' = outcome
    /\ UNCHANGED <<data, manifest, extracted, hostVars, ret>>
    /\ UNCHANGED_inputs

\* content, err = standardizeJSON(content)
ValidateStandardize ==
    /\ pc = "vm_standardize"
    /\ LET r == standardizeJSON(content)
       IN  /\ calls' = Append(calls, Call("standardizeJSON", content))
           /\ data' = r.data
           /\ IF r.err # NoError
              THEN /\ err' = Wrap("failed to standardize manifest", r.err)
                   /\ pc' = "done"
                   /\ outcome' = "returned"
              ELSE /\ err' = NoError
                   /\ pc' = "vm_unmarshal"
                   /\ outcome' = outcome
    /\ UNCHANGED <<manifest, extracted, hostVars, ret>>
    /\ UNCHANGED_inputs

\* var v interface{}; err = json.Unmarshal(content, &v)
ValidateUnmarshal ==
    /\ pc = "vm_unmarshal"
    /\ calls' = Append(calls, Call("json.Unmarshal", data))
    /\ IF ~data.standard
       THEN /\ err' = Wrap("failed to deserialize manifest",
                           NewError("json.Unmarshal", "syntax"))
            /\ pc' = "done"
            /\ outcome' = "returned"
       ELSE /\ err' = NoError
            /\ pc' = "vm_validate"
            /\ outcome' = outcome
    /\ UNCHANGED <<data, manifest, extracted, hostVars, ret>>
    /\ UNCHANGED_inputs

\* sch.Validate(v) with its error dropped
ValidateValidateUnchecked ==
    /\ pc = "vm_validate"
    /\ calls' = Append(calls, [fn |-> "Validate", standard |-> TRUE])
    /\ err' = NoError
    /\ pc' = "done"
    /\ outcome' = "returned"
    /\ UNCHANGED <<data, manifest, extracted, hostVars, ret>>
    /\ UNCHANGED_inputs

\* err = sch.Validate(v); return nil
ValidateValidate ==
    /\ pc = "vm_validate"
    /\ calls' = Append(calls, [fn |-> "Validate", standard |-> TRUE])
    /\ err' = IF conforms THEN NoError
              ELSE Wrap("failed to validate manifest",
                        NewError("jsonschema.Validate", "violation"))
    /\ pc' = "done"
    /\ outcome' = "returned"
    /\ UNCHANGED <<data, manifest, extracted, hostVars, ret>>
    /\ UNCHANGED_inputs

ExtractVariables ==
    /\ pc = "ev_call"
    /\ extracted' = extractVariables(str)
    /\ pc' = "done"
    /\ outcome' = "returned"
    /\ UNCHANGED <<data, manifest, err, calls, hostVars, ret>>
    /\ UNCHANGED_inputs

HostGetVariables ==
    /\ pc = "gv_call"
    /\ hostVars' = GetVariables(host, order)
    /\ pc' = "done"
    /\ outcome' = "returned"
    /\ UNCHANGED <<data, manifest, err, calls, extracted, ret>>
    /\ UNCHANGED_inputs

PostgresqlHostGetVariables ==
    /\ pc = "pg_call"
    /\ hostVars' = PostgresqlGetVariables(args)
    /\ pc' = "done"
    /\ outcome' = "returned"
    /\ UNCHANGED <<data, manifest, err, calls, extracted, ret>>
    /\ UNCHANGED_inputs

DgraphCloudHostGetVariables ==
    /\ pc = "dg_call"
    /\ hostVars' = DgraphCloudGetVariables(args)
    /\ pc' = "done"
    /\ outcome' = "returned"
    /\ UNCHANGED <<data, manifest, err, calls, extracted, ret>>
    /\ UNCHANGED_inputs

ManifestGetHostVariables ==
    /\ pc = "ghv_call"
    /\ ret' = GetHostVariables(args.m, order)
    /\ pc' = "done"
    /\ outcome' = "returned"
    /\ UNCHANGED <<data, manifest, err, calls, extracted, hostVars>>
    /\ UNCHANGED_inputs

\* the receiver of the next call to Hash
Receiver == args.recv[Len(ret) + 1]

\* a call to Hash has returned the digest d
HashReturns(d) ==
    /\ ret' = Append(ret, d)
    /\ pc' = IF Len(ret) = 1 THEN "done" ELSE "hash_call"
    /\ outcome' = IF Len(ret) = 1 THEN "returned" ELSE outcome
    /\ UNCHANGED <<data, manifest, err, calls, extracted, hostVars>>
    /\ UNCHANGED_inputs

ModelInfoHashCall ==
    /\ pc = "hash_call" /\ args.variant = "ModelInfo"
    /\ HashReturns(ModelInfoHash(Receiver))

ModelInfoHashWithModeCall ==
    /\ pc = "hash_call" /\ args.variant = "ModelInfo (model.go)"
    /\ HashReturns(ModelInfoHashWithMode(Receiver))

HostInfoHashCall ==
    /\ pc = "hash_call" /\ args.variant = "HostInfo"
    /\ HashReturns(HostInfoHash(Receiver, order[Len(ret) + 1]))

DgraphCloudHostInfoHashCall ==
    /\ pc = "hash_call" /\ args.variant = "DgraphCloudHostInfo"
    /\ HashReturns(DgraphCloudHostInfoHash(Receiver))

\* one of the two calls of GetVariables has returned
HostGetVariablesCall ==
    /\ pc = "gv2_call"
    /\ ret' = Append(ret, GetVariables(Receiver, order[Len(ret) + 1]))
    /\ pc' = IF Len(ret) = 1 THEN "done" ELSE "gv2_call"
    /\ outcome' = IF Len(ret) = 1 THEN "returned" ELSE outcome
    /\ UNCHANGED <<data, manifest, err, calls, extracted, hostVars>>
    /\ UNCHANGED_inputs

Next ==
    \/ HostGetVariablesCall
    \/ ModelInfoHashCall
    \/ ModelInfoHashWithModeCall
    \/ HostInfoHashCall
    \/ DgraphCloudHostInfoHashCall
    \/ ManifestGetHostVariables
    \/ PostgresqlHostGetVariables
    \/ DgraphCloudHostGetVariables
    \/ ReadStandardize
    \/ ReadParseCurrent
    \/ ReadParseV1
    \/ ValidateCompile
    \/ ValidateStandardize
    \/ ValidateUnmarshal
    \/ ValidateValidate
    \/ ExtractVariables
    \/ HostGetVariables

Spec == Init /\ [][Next]_vars

-----------------------------------------------------------------------------
(* Calls running side by side.  Every call of ReadManifest and of          *)
(* ValidateManifest keeps content, data, manifest and err in its own       *)
(* locals; schemaContent and templateRegex are the only package-level      *)
(* variables, and no statement of the package assigns to them.  A step of  *)
(* a call is one statement of its function, as in the actions above.       *)

Procs == {"p1", "p2"}

\* documents for the calls running side by side
ConcurrentDocs ==
    { Doc("unbalanced brace", FALSE, "object", Absent, Absent, Absent),
      Doc("ok", FALSE, "null", Absent, Absent, Absent),
      Doc("ok", FALSE, "object",
          Field("object", [k \in {"m1"} |-> CHOOSE b \in ModelBodies : b.name = "m1" /\ ~b.bad], << >>),
          Absent, Absent),
      Doc("ok", TRUE, "object", Absent,
          Field("array", EmptyMap,
                <<HostBody("h1", "https://e1", "", "X-API-Key", EmptyMap, EmptyMap, FALSE)>>),
          Absent),
      Doc("ok", TRUE, "object",
          Field("object", [k \in {"m2"} |-> CHOOSE b \in ModelBodies : b.name = "m2" /\ ~b.bad], << >>),
          AString, Absent) }

ConcurrentCalls ==
    {[op |-> "ReadManifest", content |-> c, conforms |-> TRUE] : c \in ConcurrentDocs}
    \cup {[op |-> "ValidateManifest", content |-> c, conforms |-> acc] :
            c \in ConcurrentDocs, acc \in BOOLEAN}

\* the locals of a call that has not made a step yet
LocalsOf(call) ==
    [op |-> call.op, content |-> call.content, conforms |-> call.conforms,
     pc |-> IF call.op = "ReadManifest" THEN "rm_standardize" ELSE "vm_compile",
     manifest |-> ZeroManifest, err |-> NoError, outcome |-> "none"]

\* every call writes the one buffer of call p1
FrameShared(p) == "p1"

\* the stack frame that holds the data of call p: its own
Frame(p) == p

\* the bytes call p reads as its data
DataOf(p) == procs.data[Frame(p)]

\* call p goes on with the locals l, having written d as its data
Proceed(p, l, d) ==
    /\ procs' = [locals |-> [procs.locals EXCEPT ![p] = l],
                 data |-> [procs.data EXCEPT ![Frame(p)] = d]]
    /\ UNCHANGED <<pc, op, content, data, manifest, err, outcome, calls, schemaOK, conforms,
                   str, segs, extracted, host, order, hostVars, args, ret, shared>>

Returned(l, e) == [l EXCEPT !.err = e, !.pc = "done", !.outcome = "returned"]
Continue(l, e, next) == [l EXCEPT !.err = e, !.pc = next]

\* jsonschema.CompileString("hypermode.json", schemaContent) succeeds
SchemaCompiles(text) == text = "hypermode.json"

InitConcurrent ==
    /\ \E f \in [Procs -> ConcurrentCalls] :
          procs = [locals |-> [p \in Procs |-> LocalsOf(f[p])],
                   data |-> [p \in Procs |-> NoDoc]]
    /\ shared = PackageVars
    /\ op = "concurrent" /\ pc = "idle"
    /\ content = NoDoc /\ schemaOK = TRUE /\ conforms = TRUE
    /\ NoStringInput /\ NoHostInput /\ args = NoArgs
    /\ data = NoDoc /\ manifest = ZeroManifest /\ err = NoError /\ outcome = "none"
    /\ calls = << >> /\ extracted = NilSlice /\ hostVars = NilSlice /\ ret = NoRet

ConcReadStandardize(p) ==
    /\ procs.locals[p].pc = "rm_standardize"
    /\ LET l == procs.locals[p]
           r == standardizeJSON(l.content)
       IN  Proceed(p, IF r.err # NoError THEN Returned(l, r.err)
                      ELSE Continue(l, r.err, "rm_parse"),
                   r.data)

ConcReadParseCurrent(p) ==
    /\ procs.locals[p].pc = "rm_parse"
    /\ LET l == procs.locals[p]
           r == parseManifestJson(DataOf(p), l.manifest)
       IN  Proceed(p, IF r.panicked
                      THEN [l EXCEPT !.pc = "done", !.outcome = "panicked"]
                      ELSE IF r.err = NoError
                      THEN [Returned(l, NoError) EXCEPT !.manifest = r.m]
                      ELSE [Continue(l, r.err, "rm_parseV1") EXCEPT !.manifest = r.m],
                   DataOf(p))

ConcReadParseV1(p) ==
    /\ procs.locals[p].pc = "rm_parseV1"
    /\ LET l == procs.locals[p]
           r == parseManifestJsonV1(DataOf(p), l.manifest)
       IN  Proceed(p, [Returned(l, IF r.err = NoError THEN NoError
                                   ELSE ParseFailure(l.err, r.err))
                          EXCEPT !.manifest = r.m],
                   DataOf(p))

ConcValidateCompile(p) ==
    /\ procs.locals[p].pc = "vm_compile"
    /\ LET l == procs.locals[p]
       IN  Proceed(p, IF SchemaCompiles(shared.schemaContent)
                      THEN Continue(l, NoError, "vm_standardize")
                      ELSE Returned(l, NewError("jsonschema.CompileString", "schema")),
                   DataOf(p))

ConcValidateStandardize(p) ==
    /\ procs.locals[p].pc = "vm_standardize"
    /\ LET l == procs.locals[p]
           r == standardizeJSON(l.content)
       IN  Proceed(p, IF r.err # NoError
                      THEN Returned(l, Wrap("failed to standardize manifest", r.err))
                      ELSE Continue(l, NoError, "vm_unmarshal"),
                   r.data)

ConcValidateUnmarshal(p) ==
    /\ procs.locals[p].pc = "vm_unmarshal"
    /\ LET l == procs.locals[p]
       IN  Proceed(p, IF ~DataOf(p).standard
                      THEN Returned(l, Wrap("failed to deserialize manifest",
                                            NewError("json.Unmarshal", "syntax")))
                      ELSE Continue(l, NoError, "vm_validate"),
                   DataOf(p))

ConcValidateValidate(p) ==
    /\ procs.locals[p].pc = "vm_validate"
    /\ LET l == procs.locals[p]
       IN  Proceed(p, Returned(l, IF l.conforms THEN NoError
                                  ELSE Wrap("failed to validate manifest",
                                            NewError("jsonschema.Validate", "violation"))),
                   DataOf(p))

NextConcurrent ==
    \/ \E p \in Procs : ConcReadStandardize(p)
    \/ \E p \in Procs : ConcReadParseCurrent(p)
    \/ \E p \in Procs : ConcReadParseV1(p)
    \/ \E p \in Procs : ConcValidateCompile(p)
    \/ \E p \in Procs : ConcValidateStandardize(p)
    \/ \E p \in Procs : ConcValidateUnmarshal(p)
    \/ \E p \in Procs : ConcValidateValidate(p)

SpecConcurrent == InitConcurrent /\ [][NextConcurrent]_vars

-----------------------------------------------------------------------------
(* Properties.                                                             *)

CallNames == [i \in DOMAIN calls |-> calls[i].fn]

\* ReadManifest has returned to its caller
ReadReturned == op = "ReadManifest" /\ pc = "done" /\ outcome = "returned"

\* ReadManifest has returned a manifest and a nil error
ReadSucceeded == ReadReturned /\ err = NoError

\* the document was resolved by the legacy decode
ViaLegacy ==
    ReadSucceeded /\ CallNames = <<"standardizeJSON", "parseManifestJson", "parseManifestJsonV1">>

\* the document was resolved by the current decode
ViaCurrent == ReadSucceeded /\ CallNames = <<"standardizeJSON", "parseManifestJson">>

NamesAreKeys(m) == \A k \in DOMAIN m : m[k].Name = k

\* C1: after every successful ReadManifest, whichever decode resolved the
\* document, every entry of Models and every entry of Hosts has a Name equal
\* to the key it is stored under.
C1_NamesEqualKeys ==
    ReadSucceeded => NamesAreKeys(manifest.Models) /\ NamesAreKeys(manifest.Hosts)

\* a current-shape document with a model and a host, the host body carrying
\* a "name" that differs from its key, was read successfully
C1_Witness ==
    /\ ViaCurrent
    /\ manifest.Models # EmptyMap
    /\ \E k \in DOMAIN content.hosts.obj :
          content.hosts.obj[k].name # "" /\ content.hosts.obj[k].name # k

DecodesAsCurrent(d) == UnmarshalCurrent(d, ZeroManifest).err = NoError
DecodesAsLegacy(d) == UnmarshalV1(d).err = NoError

LegacyHosts == content.hosts.arr

\* no later host of the list repeats the name of host i
LastOfName(i) ==
    \A j \in DOMAIN LegacyHosts : j > i => LegacyHosts[j].name # LegacyHosts[i].name

EndpointCopied(i) ==
    /\ LegacyHosts[i].name \in DOMAIN manifest.Hosts
    /\ manifest.Hosts[LegacyHosts[i].name].Endpoint = LegacyHosts[i].endpoint
    /\ manifest.Hosts[LegacyHosts[i].name].BaseURL = LegacyHosts[i].endpoint

\* C3 as stated: on the legacy path every legacy host with endpoint E is in
\* Hosts with Endpoint = E and BaseURL = E.
C3_EveryLegacyHostCopied ==
    ViaLegacy => \A i \in DOMAIN LegacyHosts : EndpointCopied(i)

\* C3: on the legacy path every legacy host with endpoint E whose name no
\* later host of the list repeats is in Hosts, under its name, with
\* Endpoint = E and BaseURL = E.
C3_LastLegacyHostCopied ==
    ViaLegacy => \A i \in DOMAIN LegacyHosts : LastOfName(i) => EndpointCopied(i)

\* a legacy document with two hosts of different names and different
\* endpoints was read, and both are in Hosts
C3_Witness ==
    /\ ViaLegacy
    /\ Len(LegacyHosts) = 2
    /\ LegacyHosts[1].name # LegacyHosts[2].name
    /\ LegacyHosts[1].endpoint # LegacyHosts[2].endpoint
    /\ Cardinality(DOMAIN manifest.Hosts) = 2

AuthHeaderTranslated(i) ==
    /\ LegacyHosts[i].name \in DOMAIN manifest.Hosts
    /\ IF LegacyHosts[i].authHeader # ""
       THEN manifest.Hosts[LegacyHosts[i].name].Headers =
               [k \in {LegacyHosts[i].authHeader} |-> "{{__V1_AUTH_HEADER_VALUE__}}"]
       ELSE DOMAIN manifest.Hosts[LegacyHosts[i].name].Headers = {}

\* C4 as stated: every legacy host with a non-empty authHeader H gets Headers
\* with the single entry H -> "{{__V1_AUTH_HEADER_VALUE__}}", and every
\* legacy host without one gets no header entry.
C4_EveryAuthHeaderTranslated ==
    ViaLegacy => \A i \in DOMAIN LegacyHosts : AuthHeaderTranslated(i)

\* C4: the same for every legacy host whose name no later host of the list
\* repeats: a non-empty authHeader H gives Headers with the single entry
\* H -> "{{__V1_AUTH_HEADER_VALUE__}}", no authHeader gives no header entry.
C4_LastAuthHeaderTranslated ==
    ViaLegacy => \A i \in DOMAIN LegacyHosts : LastOfName(i) => AuthHeaderTranslated(i)

\* a legacy document with a host that names an authHeader and a host that
\* names none was read; the first has the one header, the second none
C4_Witness ==
    /\ ViaLegacy
    /\ \E i, j \in DOMAIN LegacyHosts :
          /\ LegacyHosts[i].name # LegacyHosts[j].name
          /\ LegacyHosts[i].authHeader = "X-API-Key"
          /\ LegacyHosts[j].authHeader = ""
          /\ DOMAIN manifest.Hosts[LegacyHosts[i].name].Headers = {"X-API-Key"}
          /\ manifest.Hosts[LegacyHosts[j].name].Headers = EmptyMap

\* C5: ReadManifest returns no partial manifest: with a non-nil error the
\* manifest returned has empty Models, Hosts and Collections and Version
\* unset.
C5_NoPartialManifest ==
    (ReadReturned /\ err # NoError) =>
        /\ manifest.Models = EmptyMap
        /\ manifest.Hosts = EmptyMap
        /\ manifest.Collections = EmptyMap
        /\ manifest.Version = 0

\* the standardized bytes decode against neither shape
DecodesAsNeither ==
    content.syntax = "ok" /\ ~DecodesAsCurrent(data) /\ ~DecodesAsLegacy(data)

\* C6: for a document that decodes against neither shape ReadManifest calls
\* the current decode, then the legacy decode once, and returns an error
\* that wraps the error of the legacy decode; nothing is retried.
C6_LegacyErrorReturned ==
    (op = "ReadManifest" /\ pc = "done" /\ DecodesAsNeither) =>
        /\ outcome = "returned"
        /\ CallNames = <<"standardizeJSON", "parseManifestJson", "parseManifestJsonV1">>
        /\ err.wrap = <<"failed to parse manifest">>
        /\ Unwrap(err) = UnmarshalV1(data).err

\* a document whose "hosts" is a string was read to the end: both decodes
\* were called and an error came back
C6_Witness ==
    /\ ReadReturned
    /\ content.syntax = "ok" /\ content.top = "object" /\ content.hosts.kind = "string"
    /\ Len(calls) = 3
    /\ err # NoError

\* C7: preprocessing is the first step of ReadManifest and of
\* ValidateManifest: for an input the preprocessor rejects the call makes no
\* other step and fails with the preprocessing error, and no decode receives
\* bytes that were not standardized.
C7_PreprocessingFirst ==
    /\ (op \in {"ReadManifest", "ValidateManifest"} /\ pc = "done" /\ content.syntax # "ok") =>
          /\ CallNames = <<"standardizeJSON">>
          /\ err.by = "hujson.Parse"
    /\ \A i \in DOMAIN calls :
          calls[i].fn \in {"parseManifestJson", "parseManifestJsonV1", "json.Unmarshal"}
             => calls[i].standard

\* the pieces the pattern is written for
Written(ss) ==
    \A i \in DOMAIN ss :
        \/ ss[i].kind \in {"text", "simple"}
        \/ ss[i].kind = "base64" /\ ss[i].pad = ""

\* the names the pieces of a string hold, left to right
RECURSIVE NamesOf(_)
NamesOf(ss) ==
    IF ss = << >> THEN << >>
    ELSE (CASE Head(ss).kind = "simple" -> <<Head(ss).a>>
            [] Head(ss).kind = "base64" -> <<Head(ss).a, Head(ss).b>>
            [] OTHER -> << >>) \o NamesOf(Tail(ss))

HasOpen(s) == \E i \in 1 .. Len(s) : HasAt(s, i, "{{")

\* C8: extractVariables fails for no string: it returns the names of the
\* placeholders left to right, each placeholder on its own and a repeated
\* name as often as it occurs, and an empty non-nil sequence for a string
\* without a placeholder.
C8_NamesLeftToRight ==
    (op = "extractVariables" /\ pc = "done") =>
        /\ outcome = "returned"
        /\ ~extracted.isNil
        /\ Written(segs) => extracted.elems = NamesOf(segs)
        /\ ~HasOpen(str) => extracted.elems = << >>

\* the same placeholder twice in one string gave its name twice
C8_Witness ==
    /\ op = "extractVariables" /\ pc = "done"
    /\ Len(segs) = 2
    /\ segs[1].kind = "simple" /\ segs[2] = segs[1]
    /\ extracted.elems = <<segs[1].a, segs[1].a>>

\* C9: "{{base64(A:B)}}" and "{{base64:(A:B)}}" both give [A, B], never the
\* text inside the braces.
C9_BothPairSpellings ==
    (/\ op = "extractVariables" /\ pc = "done"
     /\ Len(segs) = 1
     /\ segs[1].kind \in {"base64", "base64colon"}
     /\ segs[1].pad = "") =>
        extracted.elems = <<segs[1].a, segs[1].b>>

\* the names of the values of m, its keys visited in the order ks
RECURSIVE NamesIn(_, _)
NamesIn(m, ks) ==
    IF ks = << >> THEN << >>
    ELSE extractVariables(m[Head(ks)]).elems \o NamesIn(m, Tail(ks))

FirstAt(x, scan) == Min({i \in DOMAIN scan : scan[i] = x})

NoDuplicates(r) == \A i, j \in DOMAIN r : r[i] = r[j] => i = j

\* r holds the names of scan once each, in the order of first occurrence,
\* the names of hn ahead of the others
FirstOccurrences(r, scan, hn) ==
    /\ NoDuplicates(r)
    /\ Range(r) = Range(scan)
    /\ \A i, j \in DOMAIN r : i < j => FirstAt(r[i], scan) < FirstAt(r[j], scan)
    /\ \A i, j \in DOMAIN r : (i < j /\ r[j] \in hn) => r[i] \in hn

\* C10: HostInfo.GetVariables returns, without duplicates, exactly the names
\* referenced in the header values and the query-parameter values, in the
\* order of first occurrence of the scan of the headers followed by the
\* query parameters: every name of a header comes before every name that
\* only a query parameter holds.
C10_GetVariablesDeduplicates ==
    (op = "GetVariables" /\ pc = "done") =>
        FirstOccurrences(hostVars.elems,
                         NamesIn(host.Headers, order.h) \o NamesIn(host.QueryParameters, order.q),
                         Range(NamesIn(host.Headers, order.h)))

\* a host whose header and query parameter both name A, the query parameter
\* also B: A came back once, ahead of B
C10_Witness ==
    /\ op = "GetVariables" /\ pc = "done"
    /\ "Authorization" \in DOMAIN host.Headers
    /\ host.Headers["Authorization"] = "Bearer {{A}}"
    /\ "key" \in DOMAIN host.QueryParameters
    /\ host.QueryParameters["key"] = "{{B}} {{A}}"
    /\ Cardinality(DOMAIN host.Headers) = 1
    /\ Cardinality(DOMAIN host.QueryParameters) = 1
    /\ hostVars.elems = <<"A", "B">>

\* C11: GetVariables of a PostgresqlHostInfo or a DgraphCloudHostInfo returns
\* the names of the connection string / key without duplicates, in the order
\* of first occurrence: a name two placeholders of the attribute reference
\* is in the result once.
C11_VariantsDeduplicate ==
    (/\ op \in {"PostgresqlHostInfo.GetVariables", "DgraphCloudHostInfo.GetVariables"}
     /\ pc = "done"
     /\ Written(segs)) =>
        FirstOccurrences(hostVars.elems, NamesOf(segs), {})

\* some header or query-parameter value of h holds a placeholder
ValueWithName(m) == \E k \in DOMAIN m : extractVariables(m[k]).elems # << >>

References(h) == ValueWithName(h.Headers) \/ ValueWithName(h.QueryParameters)

ReferencingHosts(hosts) == {k \in DOMAIN hosts : References(hosts[k])}

\* C12: the keys of the map GetHostVariables returns are exactly the names
\* of the hosts of the manifest that reference a placeholder, each mapped to
\* what GetVariables returned for that host; a host without a placeholder is
\* absent, never mapped to an empty list.
C12_HostsWithVariables ==
    (op = "GetHostVariables" /\ pc = "done") =>
        /\ DOMAIN ret = {args.m.Hosts[k].Name : k \in ReferencingHosts(args.m.Hosts)}
        /\ \A k \in ReferencingHosts(args.m.Hosts) :
              ret[args.m.Hosts[k].Name] = GetVariables(args.m.Hosts[k], order.per[k]).elems
        /\ \A n \in DOMAIN ret : ret[n] # << >>

\* a manifest with a host that references variables and a host that
\* references none: the result holds the first host alone
C12_Witness ==
    /\ op = "GetHostVariables" /\ pc = "done"
    /\ DOMAIN args.m.Hosts = {"h1", "h2"}
    /\ args.m.Hosts["h1"].Headers = [k \in {"Authorization"} |-> "plain"]
    /\ DOMAIN args.m.Hosts["h2"].Headers = HeaderKeys
    /\ DOMAIN ret = {"h2"}
    /\ Len(ret["h2"]) = 3

\* both calls to Hash have returned
Hashed == op = "Hash" /\ pc = "done"

\* C13: Hash is a function of the attribute values: two values with equal
\* attributes, whatever the order in which their Headers and QueryParameters
\* maps yield their entries, have the same digest.
C13_EqualValuesEqualDigests ==
    (Hashed /\ args.recv[1] = args.recv[2]) => ret[1] = ret[2]

\* one HostInfo with two headers was hashed twice, its Headers map yielding
\* the keys in two different orders
C13_Witness ==
    /\ Hashed /\ args.variant = "HostInfo"
    /\ args.recv[1] = args.recv[2]
    /\ DOMAIN args.recv[1].Headers = {"a", "c"}
    /\ order[1].h # order[2].h
    /\ ret[1] = ret[2]

DiffersInOne(x, y) == Cardinality({f \in DOMAIN x : x[f] # y[f]}) = 1

\* C14: two Models, or two Hosts, that differ in exactly one attribute have
\* different inputs to the hash function and so different digests.
C14_OneAttributeChangesDigest ==
    (Hashed /\ DiffersInOne(args.recv[1], args.recv[2])) => ret[1] # ret[2]

HasPipe(v) == \E i \in 1 .. Len(v) : At(v, i) = "|"

\* the attributes that enter the hash input of a value without maps
HashedAttributes(variant) ==
    CASE variant = "ModelInfo" -> {"Name", "SourceModel", "Provider", "Host"}
      [] variant = "ModelInfo (model.go)" -> {"Name", "SourceModel", "Provider", "Host", "Mode"}
      [] variant = "DgraphCloudHostInfo" -> {"Name", "Type", "Endpoint", "Key"}
      [] OTHER -> {}

PipeFree(variant, x) == \A f \in HashedAttributes(variant) : ~HasPipe(x[f])

SameHashed(variant, x, y) == \A f \in HashedAttributes(variant) : x[f] = y[f]

\* C15 as stated: two Models, or two Hosts, with different attributes never
\* have the same hash input, also when a value holds the delimiter.
C15_HashInputUnambiguous ==
    (Hashed /\ args.recv[1] # args.recv[2]) => ret[1].sha256 # ret[2].sha256

\* C15: two Models, or two DgraphCloudHostInfo hosts, whose hashed
\* attributes differ and hold no delimiter have different hash inputs.
C15_UnambiguousWithoutDelimiter ==
    (/\ Hashed
     /\ args.variant \in {"ModelInfo", "ModelInfo (model.go)", "DgraphCloudHostInfo"}
     /\ ~SameHashed(args.variant, args.recv[1], args.recv[2])
     /\ PipeFree(args.variant, args.recv[1])
     /\ PipeFree(args.variant, args.recv[2])) =>
        ret[1].sha256 # ret[2].sha256

\* two Models without a delimiter that differ in the provider and the host
\* were hashed, and their hash inputs differ
C15_Witness ==
    /\ Hashed /\ args.variant = "ModelInfo"
    /\ PipeFree("ModelInfo", args.recv[1]) /\ PipeFree("ModelInfo", args.recv[2])
    /\ args.recv[1].Provider # args.recv[2].Provider
    /\ args.recv[1].Host # args.recv[2].Host
    /\ ret[1].sha256 # ret[2].sha256

\* the host types the package names
KnownHostTypes == {"http", "postgresql", "dgraph-cloud"}

\* the "type" a host element declares ("" when it declares none)
DeclaredType(body) == IF "type" \in DOMAIN body THEN body.type ELSE ""

\* some host of the document declares a type that is not a known one
DeclaresUnknownType ==
    /\ content.syntax = "ok" /\ content.top = "object"
    /\ \E k \in DOMAIN content.hosts.obj :
          DeclaredType(content.hosts.obj[k]) \notin KnownHostTypes \cup {""}

\* C16: ReadManifest fails with an error for a document one of whose hosts
\* declares a type that is not a known host type; the host is never accepted
\* as a generic HTTP host.
C16_UnknownHostTypeRejected ==
    (op = "ReadManifest" /\ pc = "done" /\ DeclaresUnknownType) =>
        outcome = "returned" /\ err # NoError

NoBadElement(field) ==
    /\ \A k \in DOMAIN field.obj : ~field.obj[k].bad
    /\ \A i \in DOMAIN field.arr : ~field.arr[i].bad

\* the document is written in the current shape
CurrentShaped ==
    /\ content.syntax = "ok" /\ content.top = "object"
    /\ content.models.kind \in {"absent", "object"} /\ NoBadElement(content.models)
    /\ content.hosts.kind \in {"absent", "object"} /\ NoBadElement(content.hosts)
    /\ content.collections.kind \in {"absent", "object"}

\* the document is written in the legacy shape
LegacyShaped ==
    /\ content.syntax = "ok" /\ content.top = "object"
    /\ content.models.kind \in {"absent", "array"} /\ NoBadElement(content.models)
    /\ content.hosts.kind \in {"absent", "array"} /\ NoBadElement(content.hosts)
    /\ "array" \in {content.models.kind, content.hosts.kind}

\* the names the document gives its hosts and its models
DeclaredHosts == DOMAIN content.hosts.obj \cup {content.hosts.arr[i].name : i \in DOMAIN content.hosts.arr}
DeclaredModels == DOMAIN content.models.obj \cup {content.models.arr[i].name : i \in DOMAIN content.models.arr}

\* a model names a host, or a search method an embedder, the document lacks
Dangling ==
    \/ \E k \in DOMAIN content.models.obj : content.models.obj[k].host \notin DeclaredHosts
    \/ \E i \in DOMAIN content.models.arr : content.models.arr[i].host \notin DeclaredHosts
    \/ \E c \in DOMAIN content.collections.obj :
          \E sm \in DOMAIN content.collections.obj[c].SearchMethods :
             content.collections.obj[c].SearchMethods[sm].Embedder \notin DeclaredModels

\* the references of the document are in the manifest as they were written
ReferencesKept ==
    /\ \A k \in DOMAIN content.models.obj :
          manifest.Models[k].Host = content.models.obj[k].host
    /\ \A i \in DOMAIN content.models.arr :
          manifest.Models[content.models.arr[i].name].Host = content.models.arr[i].host
    /\ CurrentShaped =>
          \A c \in DOMAIN content.collections.obj :
             \A sm \in DOMAIN content.collections.obj[c].SearchMethods :
                manifest.Collections[c].SearchMethods[sm].Embedder =
                   content.collections.obj[c].SearchMethods[sm].Embedder

\* C17: ReadManifest rejects no manifest for a dangling reference: a
\* document of either shape whose model names a host that is no entry of
\* hosts, or whose search method names an embedder that is no entry of
\* models, is read with a nil error and the reference as it was written.
C17_DanglingReferencesAccepted ==
    (/\ op = "ReadManifest" /\ pc = "done"
     /\ CurrentShaped \/ LegacyShaped
     /\ Dangling) =>
        ReadSucceeded /\ ReferencesKept

\* a current-shape document with a model whose host is not among its hosts
\* and a search method whose embedder is not among its models was read
C17_Witness ==
    /\ ViaCurrent /\ Dangling
    /\ \E k \in DOMAIN content.models.obj :
          /\ content.models.obj[k].host \notin DeclaredHosts
          /\ manifest.Models[k].Host = "h1"
    /\ DOMAIN content.hosts.obj = {"h2"}
    /\ DOMAIN content.collections.obj # {}

\* the first stage of ValidateManifest that fails for the call ("" if none)
FailingStage ==
    IF ~schemaOK THEN "jsonschema.CompileString"
    ELSE IF content.syntax # "ok" THEN "hujson.Parse"
    ELSE IF ~conforms THEN "jsonschema.Validate"
    ELSE ""

\* the message ValidateManifest puts in front of the error of a stage
StageMessage(stage) ==
    CASE stage = "hujson.Parse" -> <<"failed to standardize manifest">>
      [] stage = "json.Unmarshal" -> <<"failed to deserialize manifest">>
      [] stage = "jsonschema.Validate" -> <<"failed to validate manifest">>
      [] OTHER -> << >>

ReadManifestAlone(c) ==
    LET st == standardizeJSON(c)
        cur == parseManifestJson(st.data, ZeroManifest)
        old == parseManifestJsonV1(st.data, cur.m)
    IN  IF st.err # NoError
        THEN [manifest |-> ZeroManifest, err |-> st.err, outcome |-> "returned"]
        ELSE IF cur.panicked
        THEN [manifest |-> ZeroManifest, err |-> NoError, outcome |-> "panicked"]
        ELSE IF cur.err = NoError
        THEN [manifest |-> cur.m, err |-> NoError, outcome |-> "returned"]
        ELSE [manifest |-> old.m,
              err |-> IF old.err = NoError THEN NoError
                      ELSE Wrap("failed to parse manifest", old.err),
              outcome |-> "returned"]

\* what ValidateManifest(c) returns when it runs alone
ValidateManifestAlone(c, acc) ==
    [manifest |-> ZeroManifest,
     err |-> IF c.syntax # "ok"
             THEN Wrap("failed to standardize manifest", NewError("hujson.Parse", c.syntax))
             ELSE IF ~acc
             THEN Wrap("failed to validate manifest", NewError("jsonschema.Validate", "violation"))
             ELSE NoError,
     outcome |-> "returned"]

Alone(l) ==
    IF l.op = "ReadManifest" THEN ReadManifestAlone(l.content)
    ELSE ValidateManifestAlone(l.content, l.conforms)

ResultOf(l) == [manifest |-> l.manifest, err |-> l.err, outcome |-> l.outcome]

Trimmed(name) ==
    /\ name # ""
    /\ ~IsSpace(At(name, 1))
    /\ ~IsSpace(At(name, Len(name)))

\* C20: white space inside a placeholder is not part of a name: every name
\* extractVariables returns is non-empty and has no white space at either
\* end, "{{ A }}" gives [A], "{{ base64( A : B ) }}" gives [A, B], and a
\* placeholder of white space only gives no name.
C20_NamesTrimmed ==
    (op = "extractVariables" /\ pc = "done") =>
        /\ \A i \in DOMAIN extracted.elems : Trimmed(extracted.elems[i])
        /\ (Len(segs) = 1 /\ segs[1].kind = "simple") =>
              extracted.elems = <<segs[1].a>>
        /\ (Len(segs) = 1 /\ segs[1].kind = "base64") =>
              extracted.elems = <<segs[1].a, segs[1].b>>
        /\ (Len(segs) = 1 /\ segs[1].kind = "blank") =>
              extracted.elems = << >>

\* C21: a manifest ReadManifest resolves through the legacy decode holds
\* nothing of the failed current decode: Collections is empty, and Models and
\* Hosts are the translated legacy entries and no others.
C21_LegacyDecodeAlone ==
    ViaLegacy =>
        /\ manifest.Collections = EmptyMap
        /\ manifest.Models = CopyModels(EmptyMap, UnmarshalV1(data).Models)
        /\ manifest.Hosts = CopyHosts(EmptyMap, UnmarshalV1(data).Hosts)

\* C22: two calls of GetVariables on one host, or on two hosts with equal
\* Headers and equal QueryParameters, return the same names in the same
\* order.
C22_GetVariablesDeterministic ==
    (op = "GetVariables twice" /\ pc = "done") => ret[1] = ret[2]

====
